---- MODULE Spec2Model ----
(***************************************************************************)
(* Model of audit_analysis.py: a straight-line audit script that loads     *)
(* four sheets of a workbook, prints coverage statistics, draws a seeded   *)
(* sample of firms, previews it and writes it to a JSON file.              *)
(*                                                                         *)
(* A cell of a loaded table is a record [k, s, n]:                         *)
(*   k = "nan"  the missing-value marker (float NaN)                       *)
(*   k = "str"  a text cell, s its characters                              *)
(*   k = "num"  a numeric cell (Python int), n its value                   *)
(*   k = "ts"   a date cell (pandas Timestamp), n its day number           *)
(*   k = "none" Python None, the default of Series.get on an absent column *)
(* A table is [cols |-> set of column names, rows |-> sequence of          *)
(* functions from cols to cells].                                          *)
(***************************************************************************)
EXTENDS Integers, Sequences, FiniteSets, TLC

\* ------------------------------------------------------------------ bounds
MaxFirms == 6
MaxCovMembers == 3
MaxExportMembers == 6
MaxLoadMembers == 1
MaxRuns == 2

\* ------------------------------------------------------- program constants
SampleSize == 5
HeadSize == 5

\* ------------------------------------------------------------------ cells
NaN == [k |-> "nan", s |-> <<>>, n |-> 0]
None == [k |-> "none", s |-> <<>>, n |-> 0]
Str(t) == [k |-> "str", s |-> t, n |-> 0]
Num(i) == [k |-> "num", s |-> <<>>, n |-> i]
Ts(i) == [k |-> "ts", s |-> <<>>, n |-> i]

EmptyTable == [cols |-> {}, rows |-> <<>>]

DigitChars == <<"0", "1", "2", "3", "4", "5", "6", "7", "8", "9">>

RECURSIVE Digits(_)
Digits(i) ==
    IF i < 10 THEN <<DigitChars[i + 1]>>
    ELSE Digits(i \div 10) \o <<DigitChars[(i % 10) + 1]>>

\* str(v)
PyStr(c) ==
    CASE c.k = "str" -> c.s
      [] c.k = "nan" -> <<"n", "a", "n">>
      [] c.k = "num" -> Digits(c.n)
      [] c.k = "ts" -> <<"d">> \o Digits(c.n)
      [] OTHER -> <<"N", "o", "n", "e">>

IsSpace(ch) == ch = " "

RECURSIVE LStrip(_)
LStrip(t) ==
    IF t = <<>> THEN <<>>
    ELSE IF IsSpace(Head(t)) THEN LStrip(Tail(t)) ELSE t

RECURSIVE RStrip(_)
RStrip(t) ==
    IF t = <<>> THEN <<>>
    ELSE IF IsSpace(t[Len(t)]) THEN RStrip(SubSeq(t, 1, Len(t) - 1)) ELSE t

\* str.strip()
Strip(t) == RStrip(LStrip(t))

\* bool(v)
Truthy(c) ==
    CASE c.k = "str" -> c.s # <<>>
      [] c.k = "num" -> c.n # 0
      [] c.k = "nan" -> TRUE
      [] c.k = "ts" -> TRUE
      [] OTHER -> FALSE

\* elementwise ==  of a column against a scalar: NaN equals nothing
PyEq(a, b) == a.k # "nan" /\ b.k # "nan" /\ a = b

\* Series.notna()
NotNa(c) == c.k # "nan"

\* elementwise  != ''
NeEmpty(c) == ~(c.k = "str" /\ c.s = <<>>)

\* the coverage rule: col.notna() & (col != '')
Filled(c) == NotNa(c) /\ NeEmpty(c)

\* Series.get(col, default) on a row
Get(row, col, default) == IF col \in DOMAIN row THEN row[col] ELSE default

\* the preview rule: "✓" if v and str(v).strip() else "✗"
Status(row, col) ==
    LET v == Get(row, col, None)
    IN  Truthy(v) /\ Strip(PyStr(v)) # <<>>

\* column values of a table, in row order
Column(t, col) == [i \in 1..Len(t.rows) |-> t.rows[i][col]]

\* the boolean column  df[col].notna() & (df[col] != '')
FilledMask(t, col) == [i \in 1..Len(t.rows) |-> Filled(t.rows[i][col])]

\* Series.sum() of a boolean column
RECURSIVE SumTrue(_)
SumTrue(mask) ==
    IF mask = <<>> THEN 0
    ELSE (IF Head(mask) THEN 1 ELSE 0) + SumTrue(Tail(mask))

\* a / b rounded to an integer as the ".1f" format rounds (ties to even;
\* every tie that arises below 2000 rows is exactly representable)
RoundHalfEven(a, b) ==
    LET q == a \div b
        r == a % b
    IN  IF 2 * r < b THEN q
        ELSE IF 2 * r > b THEN q + 1
        ELSE IF q % 2 = 0 THEN q ELSE q + 1

\* f"{100*c/n:.1f}" in tenths of a percent; -1 stands for "nan" (n = 0)
Tenths(c, n) == IF n = 0 THEN -1 ELSE RoundHalfEven(1000 * c, n)

\* boolean-mask row selection df[df[col] == v]
Matching(t, col, v) == SelectSeq(t.rows, LAMBDA r : PyEq(r[col], v))

\* Unique without the removal of repeated values
UniqueKeepAll(cells) == cells

\* Series.unique().tolist(): first occurrences in order, one entry for NaN
RECURSIVE Unique(_)
Unique(cells) ==
    IF cells = <<>> THEN <<>>
    ELSE LET init == Unique(SubSeq(cells, 1, Len(cells) - 1))
             last == cells[Len(cells)]
         IN  IF \E i \in 1..Len(init) : init[i] = last THEN init
             ELSE Append(init, last)

Min(a, b) == IF a < b THEN a ELSE b

\* DataFrame.head(5)
FirstN(s, k) == SubSeq(s, 1, Min(k, Len(s)))

\* default=str json encoding of one value (json.dump, default=str)
JsonValue(c) ==
    CASE c.k = "str" -> [j |-> "string", s |-> c.s, n |-> 0]
      [] c.k = "num" -> [j |-> "number", s |-> <<>>, n |-> c.n]
      [] c.k = "nan" -> [j |-> "NaN", s |-> <<>>, n |-> 0]
      [] c.k = "none" -> [j |-> "null", s |-> <<>>, n |-> 0]
      [] OTHER -> [j |-> "string", s |-> PyStr(c), n |-> 0]

JsonRow(row) == [c \in DOMAIN row |-> JsonValue(row[c])]

JsonElement(e) ==
    [firm |-> JsonValue(e.firm),
     website |-> JsonValue(e.website),
     firm_data |-> JsonRow(e.firm_data),
     team_members |-> [j \in 1..Len(e.team_members) |-> JsonRow(e.team_members[j])]]

\* the document json.dump writes for sample_data
JsonDump(data) == [i \in 1..Len(data) |-> JsonElement(data[i])]

\* random.sample(population of n, k) right after random.seed(42), as the
\* 1-based positions drawn (CPython pool selection), for n = 0..9
Seed42Sample ==
    << <<>>, <<1>>, <<1, 2>>, <<3, 1, 2>>, <<1, 4, 2, 3>>, <<1, 5, 3, 2, 4>>,
       <<6, 1, 5, 3, 2>>, <<6, 1, 7, 3, 5>>, <<2, 1, 6, 3, 8>>, <<2, 1, 6, 3, 9>> >>

\* all sequences of k distinct positions of 1..n
Injections(n, k) ==
    {f \in [1..k -> 1..n] : \A a, b \in 1..k : a # b => f[a] # f[b]}

\* positions random.sample may draw in generator state g
SamplePositions(g, n, k) ==
    IF g = "seeded" THEN {Seed42Sample[n + 1]} ELSE Injections(n, k)

\* ---------------------------------------------------------------- inputs
RequiredSheets == {"VC Firms", "Team Members"}
OptionalSheets == {"Portfolio Companies", "Extraction Metrics"}
AllSheets == RequiredSheets \cup OptionalSheets

MemberRequired == {"vcFirm", "name"}
MemberOptional ==
    {"title", "email", "linkedinUrl", "portfolioCompanies", "decisionMakerTier"}
MemberCols == MemberRequired \cup MemberOptional

FirmName(i) == Str(<<"F">> \o Digits(i))

Restrict(f, S) == [c \in S |-> f[c]]

Reverse(s) == [i \in 1..Len(s) |-> s[Len(s) + 1 - i]]

\* the two optional sheets as loaded when present
PortfolioSheet ==
    [cols |-> {"company"},
     rows |-> << [company |-> Str(<<"p", "1">>)], [company |-> Str(<<"p", "2">>)] >>]
MetricsSheet == [cols |-> {"metric"}, rows |-> << [metric |-> Num(1)] >>]

Workbook(exists, sheets, firms, members) ==
    [exists |-> exists, sheets |-> sheets, firms |-> firms, members |-> members,
     portfolio |-> PortfolioSheet, metrics |-> MetricsSheet]

\* cell values a contact field takes: missing, empty, blank, text, zero
CovCells == << NaN, Str(<<>>), Str(<<" ">>), Str(<<"a">>), Num(0) >>
CovCell(i) == CovCells[((i - 1) % Len(CovCells)) + 1]

PlainFirm(i) ==
    [companyName |-> FirmName(i), websiteUrl |-> Str(<<"w">> \o Digits(i))]

PlainMember(i, f) ==
    [vcFirm |-> FirmName(f), name |-> Str(<<"m">> \o Digits(i)),
     title |-> Str(<<"t">>), email |-> Str(<<"e">>), linkedinUrl |-> Str(<<"l">>),
     portfolioCompanies |-> Str(<<"p">>), decisionMakerTier |-> Str(<<"T", "1">>)]

\* workbooks that differ in which sheets and columns exist
LoadMemberColSets ==
    {R \cup O : R \in SUBSET MemberRequired,
                O \in {X \in SUBSET MemberOptional :
                          Cardinality(X) <= 1 \/ Cardinality(MemberOptional \ X) <= 1}}
LoadFirmColSets ==
    {{"companyName", "websiteUrl"}, {"companyName"}, {"websiteUrl"}}
LoadWorkbooks ==
    {Workbook(FALSE, {}, EmptyTable, EmptyTable)} \cup
    {Workbook(TRUE, sh,
              [cols |-> fc, rows |-> << Restrict(PlainFirm(1), fc) >>],
              [cols |-> mc, rows |-> [i \in 1..n |-> Restrict(PlainMember(i, 1), mc)]]) :
         sh \in SUBSET AllSheets, fc \in LoadFirmColSets,
         mc \in LoadMemberColSets, n \in 0..MaxLoadMembers}

\* workbooks that differ in the contents of the contact fields
CovMember(i, e) ==
    [vcFirm |-> FirmName(1), name |-> Str(<<"m">> \o Digits(i)),
     email |-> CovCell(e), linkedinUrl |-> CovCell(e + 1),
     portfolioCompanies |-> CovCell(e + 2), title |-> CovCell(e + 3),
     decisionMakerTier |-> CovCell(e + 4)]
CovWorkbooks ==
    {Workbook(TRUE, AllSheets,
              [cols |-> {"companyName", "websiteUrl"}, rows |-> << PlainFirm(1) >>],
              [cols |-> mc,
               rows |-> [i \in 1..Len(e) |-> Restrict(CovMember(i, e[i]), mc)]]) :
         mc \in {MemberCols, MemberCols \ {"portfolioCompanies"}},
         e \in UNION {[1..n -> 1..Len(CovCells)] : n \in 0..MaxCovMembers}}

\* workbooks that differ in the companyName column: each row carries a name
\* of its own, the first row's name, or no name
SampleNameChoices(i) == {NaN, FirmName(1), FirmName(i)}
SampleFirmTables ==
    {[cols |-> {"companyName", "websiteUrl"},
      rows |-> [i \in 1..Len(nm) |-> [PlainFirm(i) EXCEPT !.companyName = nm[i]]]] :
        nm \in UNION {{f \in [1..n -> {NaN} \cup {FirmName(i) : i \in 1..n}] :
                          \A i \in 1..n : f[i] \in SampleNameChoices(i)} :
                      n \in 0..MaxFirms}}
SampleWorkbooks ==
    {Workbook(TRUE, AllSheets, ft,
              [cols |-> MemberCols,
               rows |-> << PlainMember(1, 1), PlainMember(2, 2), PlainMember(3, 1) >>]) :
         ft \in SampleFirmTables}

\* workbooks that differ in how many members each firm has and in the types
\* of the exported cells
ExportFirm(i, f) ==
    [companyName |-> FirmName(f), websiteUrl |-> Str(<<"w">> \o Digits(i)),
     fundSize |-> Num(10 * i), founded |-> Ts(i), notes |-> NaN]
ExportFirmCols == {"companyName", "fundSize", "founded", "notes"}
ExportFirmTables ==
    {[cols |-> fc, rows |-> [i \in 1..Len(nm) |-> Restrict(ExportFirm(i, nm[i]), fc)]] :
        fc \in {ExportFirmCols, ExportFirmCols \cup {"websiteUrl"}},
        nm \in {<<1>>, <<1, 2>>, <<1, 1>>, <<2, 1>>}}
ExportMember(i, f) ==
    [vcFirm |-> FirmName(f), name |-> Str(<<"m">> \o Digits(i)),
     title |-> Str(<<"t">>), email |-> CovCell(i), linkedinUrl |-> NaN,
     portfolioCompanies |-> Num(i), decisionMakerTier |-> Ts(i % 2)]
ExportWorkbooks ==
    {Workbook(TRUE, AllSheets, ft,
              [cols |-> MemberCols,
               rows |-> [i \in 1..Len(f) |-> ExportMember(i, f[i])]]) :
         ft \in ExportFirmTables,
         f \in UNION {[1..n -> 1..2] : n \in 0..MaxExportMembers}}

\* ----------------------------------------------------------------- state
VARIABLES
    workbook,        \* the file at excel_file
    runNo,           \* which run of the script this is
    prevSample,      \* the last earlier run that drew a sample: its workbook and sample_firms
    fileAtStart,     \* audit_sample.json as this run found it
    fileContent,     \* audit_sample.json on disk
    fileOpened,      \* this run has opened audit_sample.json for writing
    pc,              \* position of the run in the script
    abortAt,         \* the position at which an uncaught exception ended the run
    out,             \* lines printed to standard output by this run
    firms_df, members_df, portfolio_df, metrics_df,
    has_portfolio, has_metrics,
    linkedin_filled, email_filled, portfolio_filled, title_filled,
    unique_firms,
    rng,             \* state of the module-level random generator
    sample_firms,
    idx,             \* position of the running for loop in sample_firms
    sample_data

envVars == <<workbook, runNo, prevSample, fileAtStart>>
fileVars == <<fileContent, fileOpened>>
loadVars == <<firms_df, members_df, portfolio_df, metrics_df, has_portfolio, has_metrics>>
covVars == <<linkedin_filled, email_filled, portfolio_filled, title_filled>>
sampleVars == <<unique_firms, rng, sample_firms>>
vars == <<envVars, fileVars, pc, abortAt, out, loadVars, covVars, sampleVars,
          idx, sample_data>>

NoFile == [exists |-> FALSE, doc |-> <<>>]
NoSample == [drawn |-> FALSE, names |-> <<>>, workbook |-> <<>>]

\* the state of a fresh interpreter about to run line 15
StartRun ==
    /\ pc = "banner"
    /\ abortAt = "none"
    /\ out = <<>>
    /\ fileOpened = FALSE
    /\ firms_df = EmptyTable /\ members_df = EmptyTable
    /\ portfolio_df = EmptyTable /\ metrics_df = EmptyTable
    /\ has_portfolio = FALSE /\ has_metrics = FALSE
    /\ linkedin_filled = <<>> /\ email_filled = <<>>
    /\ portfolio_filled = <<>> /\ title_filled = <<>>
    /\ unique_firms = <<>>
    /\ rng = "entropy"
    /\ sample_firms = <<>>
    /\ idx = 0
    /\ sample_data = <<>>

InitWith(W) ==
    /\ workbook \in W
    /\ runNo = 1
    /\ prevSample = NoSample
    /\ fileAtStart = NoFile
    /\ fileContent = NoFile
    /\ StartRun

InitLoad == InitWith(LoadWorkbooks)
InitCov == InitWith(CovWorkbooks)
InitSample == InitWith(SampleWorkbooks)
InitExport == InitWith(ExportWorkbooks)

\* --------------------------------------------------------------- actions
\* one printed line: what it reports (t) and the values formatted into it (v)
Line(t, v) == [t |-> t, v |-> v]

Emit(lines) == out' = out \o lines

\* an uncaught exception at position pc: the traceback ends the process
Raise == pc' = "aborted" /\ abortAt' = pc

Goto(p) == pc' = p /\ abortAt' = abortAt

\* pd.read_excel(excel_file, sheet_name=name) succeeds
CanRead(name) == workbook.exists /\ name \in workbook.sheets

\* lines 15-17
Banner ==
    /\ pc = "banner"
    /\ Emit(<<Line("rule", 60), Line("title", 0), Line("rule", 60)>>)
    /\ Goto("load_firms")
    /\ UNCHANGED <<envVars, fileVars, loadVars, covVars, sampleVars, idx, sample_data>>

\* line 20
LoadFirms ==
    /\ pc = "load_firms"
    /\ IF CanRead("VC Firms")
       THEN firms_df' = workbook.firms /\ Goto("load_members")
       ELSE firms_df' = firms_df /\ Raise
    /\ UNCHANGED <<envVars, fileVars, out, members_df, portfolio_df, metrics_df,
                   has_portfolio, has_metrics, covVars, sampleVars, idx, sample_data>>

\* line 21
LoadMembers ==
    /\ pc = "load_members"
    /\ IF CanRead("Team Members")
       THEN members_df' = workbook.members /\ Goto("load_portfolio")
       ELSE members_df' = members_df /\ Raise
    /\ UNCHANGED <<envVars, fileVars, out, firms_df, portfolio_df, metrics_df,
                   has_portfolio, has_metrics, covVars, sampleVars, idx, sample_data>>

\* LoadPortfolio without the try/except around the load
LoadPortfolioUncaught ==
    /\ pc = "load_portfolio"
    /\ IF CanRead("Portfolio Companies")
       THEN portfolio_df' = workbook.portfolio /\ has_portfolio' = TRUE /\ Goto("load_metrics")
       ELSE UNCHANGED <<portfolio_df, has_portfolio>> /\ Raise
    /\ UNCHANGED <<envVars, fileVars, out, firms_df, members_df, metrics_df,
                   has_metrics, covVars, sampleVars, idx, sample_data>>

\* lines 24-29
LoadPortfolio ==
    /\ pc = "load_portfolio"
    /\ IF CanRead("Portfolio Companies")
       THEN portfolio_df' = workbook.portfolio /\ has_portfolio' = TRUE
       ELSE portfolio_df' = EmptyTable /\ has_portfolio' = FALSE
    /\ Goto("load_metrics")
    /\ UNCHANGED <<envVars, fileVars, out, firms_df, members_df, metrics_df,
                   has_metrics, covVars, sampleVars, idx, sample_data>>

\* lines 32-37
LoadMetrics ==
    /\ pc = "load_metrics"
    /\ IF CanRead("Extraction Metrics")
       THEN metrics_df' = workbook.metrics /\ has_metrics' = TRUE
       ELSE metrics_df' = EmptyTable /\ has_metrics' = FALSE
    /\ Goto("overview")
    /\ UNCHANGED <<envVars, fileVars, out, firms_df, members_df, portfolio_df,
                   has_portfolio, covVars, sampleVars, idx, sample_data>>

\* lines 39-46
Overview ==
    /\ pc = "overview"
    /\ Emit(<<Line("overview", 0), Line("rule", 40),
               Line("total_firms", Len(firms_df.rows)),
               Line("total_members", Len(members_df.rows))>>
             \o (IF has_portfolio
                 THEN <<Line("total_portfolio", Len(portfolio_df.rows))>> ELSE <<>>)
             \o (IF has_metrics THEN <<Line("metrics_available", 1)>> ELSE <<>>))
    /\ Goto("columns")
    /\ UNCHANGED <<envVars, fileVars, loadVars, covVars, sampleVars, idx, sample_data>>

\* lines 49-53
Columns ==
    /\ pc = "columns"
    /\ Emit(<<Line("firms_columns_header", 0), Line("firms_columns", firms_df.cols),
               Line("members_columns_header", 0),
               Line("members_columns", members_df.cols)>>)
    /\ Goto("members_per_firm")
    /\ UNCHANGED <<envVars, fileVars, loadVars, covVars, sampleVars, idx, sample_data>>

\* groupby('vcFirm').size(): one group per distinct non-missing key
GroupKeys(t, col) == {t.rows[i][col] : i \in 1..Len(t.rows)} \ {NaN}
GroupSize(t, col, key) == Len(Matching(t, col, key))

SetMin(S) == CHOOSE x \in S : \A y \in S : x <= y
SetMax(S) == CHOOSE x \in S : \A y \in S : x >= y

RECURSIVE SetSum(_)
SetSum(F) ==
    IF DOMAIN F = {} THEN 0
    ELSE LET k == CHOOSE k \in DOMAIN F : TRUE
         IN  F[k] + SetSum([x \in DOMAIN F \ {k} |-> F[x]])

\* lines 56-63; -1 stands for "nan", the mean, min and max of no groups
MembersPerFirm ==
    /\ pc = "members_per_firm"
    /\ IF "vcFirm" \in members_df.cols
       THEN LET keys == GroupKeys(members_df, "vcFirm")
                size == [k \in keys |-> GroupSize(members_df, "vcFirm", k)]
                sizes == {size[k] : k \in keys}
            IN  /\ Emit(<<Line("metrics_header", 0), Line("rule", 40),
                           Line("avg_members",
                                IF keys = {} THEN -1
                                ELSE RoundHalfEven(10 * SetSum(size), Cardinality(keys))),
                           Line("min_members", IF keys = {} THEN -1 ELSE SetMin(sizes)),
                           Line("max_members", IF keys = {} THEN -1 ELSE SetMax(sizes))>>)
                /\ Goto("linkedin_cov")
       ELSE /\ Emit(<<Line("metrics_header", 0), Line("rule", 40)>>)
            /\ Raise
    /\ UNCHANGED <<envVars, fileVars, loadVars, covVars, sampleVars, idx, sample_data>>

\* the coverage line: filled count, row count, percentage in tenths
CoverageLine(t, mask) ==
    Line(t, <<SumTrue(mask), Len(members_df.rows),
              Tenths(SumTrue(mask), Len(members_df.rows))>>)

\* lines 66-67
LinkedinCov ==
    /\ pc = "linkedin_cov"
    /\ IF "linkedinUrl" \in members_df.cols
       THEN /\ linkedin_filled' = FilledMask(members_df, "linkedinUrl")
            /\ Emit(<<CoverageLine("linkedin_cov", linkedin_filled')>>)
            /\ Goto("email_cov")
       ELSE /\ UNCHANGED <<linkedin_filled, out>>
            /\ Raise
    /\ UNCHANGED <<envVars, fileVars, loadVars, email_filled, portfolio_filled,
                   title_filled, sampleVars, idx, sample_data>>

\* lines 70-71
EmailCov ==
    /\ pc = "email_cov"
    /\ IF "email" \in members_df.cols
       THEN /\ email_filled' = FilledMask(members_df, "email")
            /\ Emit(<<CoverageLine("email_cov", email_filled')>>)
            /\ Goto("portfolio_cov")
       ELSE /\ UNCHANGED <<email_filled, out>>
            /\ Raise
    /\ UNCHANGED <<envVars, fileVars, loadVars, linkedin_filled, portfolio_filled,
                   title_filled, sampleVars, idx, sample_data>>

\* lines 74-76
PortfolioCov ==
    /\ pc = "portfolio_cov"
    /\ IF "portfolioCompanies" \in members_df.cols
       THEN /\ portfolio_filled' = FilledMask(members_df, "portfolioCompanies")
            /\ Emit(<<CoverageLine("portfolio_cov", portfolio_filled')>>)
       ELSE UNCHANGED <<portfolio_filled, out>>
    /\ Goto("title_cov")
    /\ UNCHANGED <<envVars, fileVars, loadVars, linkedin_filled, email_filled,
                   title_filled, sampleVars, idx, sample_data>>

\* lines 79-80
TitleCov ==
    /\ pc = "title_cov"
    /\ IF "title" \in members_df.cols
       THEN /\ title_filled' = FilledMask(members_df, "title")
            /\ Emit(<<CoverageLine("title_cov", title_filled')>>)
            /\ Goto("tier")
       ELSE /\ UNCHANGED <<title_filled, out>>
            /\ Raise
    /\ UNCHANGED <<envVars, fileVars, loadVars, linkedin_filled, email_filled,
                   portfolio_filled, sampleVars, idx, sample_data>>

\* lines 83-87: value_counts() leaves the missing values out; the order of
\* equal counts is not fixed, so the printed lines are kept as a set
TierDistribution ==
    /\ pc = "tier"
    /\ IF "decisionMakerTier" \in members_df.cols
       THEN LET keys == GroupKeys(members_df, "decisionMakerTier")
                count(k) == GroupSize(members_df, "decisionMakerTier", k)
            IN  Emit(<<Line("tier_header", 0),
                        Line("tiers", {<<k, count(k), Tenths(count(k), Len(members_df.rows))>> :
                                          k \in keys})>>)
       ELSE UNCHANGED out
    /\ Goto("unique")
    /\ UNCHANGED <<envVars, fileVars, loadVars, covVars, sampleVars, idx, sample_data>>

\* lines 90-95
UniqueFirms ==
    /\ pc = "unique"
    /\ IF "companyName" \in firms_df.cols
       THEN /\ unique_firms' = Unique(Column(firms_df, "companyName"))
            /\ Emit(<<Line("sample_header", 0), Line("rule", 40),
                      Line("total_unique", Len(unique_firms'))>>)
            /\ Goto("seed")
       ELSE /\ unique_firms' = unique_firms
            /\ Emit(<<Line("sample_header", 0), Line("rule", 40)>>)
            /\ Raise
    /\ UNCHANGED <<envVars, fileVars, loadVars, covVars, rng, sample_firms, idx,
                   sample_data>>

\* Seed without the call of random.seed
SeedSkipped ==
    /\ pc = "seed"
    /\ rng' = rng
    /\ Goto("sample")
    /\ UNCHANGED <<envVars, fileVars, out, loadVars, covVars, unique_firms,
                   sample_firms, idx, sample_data>>

\* line 98
Seed ==
    /\ pc = "seed"
    /\ rng' = "seeded"
    /\ Goto("sample")
    /\ UNCHANGED <<envVars, fileVars, out, loadVars, covVars, unique_firms,
                   sample_firms, idx, sample_data>>

\* lines 99-101
Sample ==
    /\ pc = "sample"
    /\ LET n == Len(unique_firms)
           k == Min(SampleSize, n)
       IN  \E pos \in SamplePositions(rng, n, k) :
               sample_firms' = [i \in 1..k |-> unique_firms[pos[i]]]
    /\ rng' = "used"
    /\ Emit(<<Line("selected_header", 0)>>)
    /\ idx' = 1
    /\ Goto("preview")
    /\ UNCHANGED <<envVars, fileVars, loadVars, covVars, unique_firms, sample_data>>

\* firms_df[firms_df['companyName'] == firm]
FirmMatches(firm) == Matching(firms_df, "companyName", firm)

\* FirmData taking the last matching row
FirmDataLast(firm) == FirmMatches(firm)[Len(FirmMatches(firm))]

\* .iloc[0] of the matching rows
FirmData(firm) == FirmMatches(firm)[1]

\* members_df[members_df['vcFirm'] == firm]
FirmMembers(firm) == Matching(members_df, "vcFirm", firm)

\* firm_members.head(5)
PreviewMembers(firm) == FirstN(FirmMembers(firm), HeadSize)

\* line 112-115: the preview line of one member
MemberLine(member) ==
    Line("member", [name |-> member["name"],
                    title |-> Get(member, "title", Str(<<"N", "/", "A">>)),
                    email |-> Status(member, "email"),
                    linkedin |-> Status(member, "linkedinUrl"),
                    portfolio |-> Status(member, "portfolioCompanies")])

\* lines 105-110: the lines printed for a firm before its members
FirmLines(i, firm) ==
    <<Line("firm", <<i, firm>>),
      Line("website", Get(FirmData(firm), "websiteUrl", Str(<<"N", "/", "A">>))),
      Line("extracted", Len(FirmMembers(firm))),
      Line("members_header", i)>>

\* lines 102-115, one iteration of the loop, and line 118 when it is over
Preview ==
    /\ pc = "preview"
    /\ IF idx <= Len(sample_firms)
       THEN LET firm == sample_firms[idx]
                shown == PreviewMembers(firm)
            IN  IF FirmMatches(firm) = <<>>
                THEN /\ Raise
                     /\ UNCHANGED <<out, idx>>
                ELSE IF shown # <<>> /\ "name" \notin members_df.cols
                THEN /\ Emit(FirmLines(idx, firm))
                     /\ Raise
                     /\ UNCHANGED idx
                ELSE /\ Emit(FirmLines(idx, firm)
                             \o [j \in 1..Len(shown) |-> MemberLine(shown[j])])
                     /\ idx' = idx + 1
                     /\ Goto("preview")
       ELSE /\ idx' = 1
            /\ Goto("build")
            /\ UNCHANGED out
    /\ sample_data' = <<>>
    /\ UNCHANGED <<envVars, fileVars, loadVars, covVars, sampleVars>>

\* SampleElement with the members cut as the preview cuts them
SampleElementHead(firm) ==
    [firm |-> firm,
     website |-> Get(FirmData(firm), "websiteUrl", Str(<<>>)),
     firm_data |-> FirmData(firm),
     team_members |-> PreviewMembers(firm)]

\* lines 120-127: the element appended for one firm
SampleElement(firm) ==
    [firm |-> firm,
     website |-> Get(FirmData(firm), "websiteUrl", Str(<<>>)),
     firm_data |-> FirmData(firm),
     team_members |-> FirmMembers(firm)]

\* lines 119-127, one iteration of the loop
Build ==
    /\ pc = "build"
    /\ IF idx <= Len(sample_firms)
       THEN LET firm == sample_firms[idx]
            IN  IF FirmMatches(firm) = <<>>
                THEN /\ Raise
                     /\ UNCHANGED <<sample_data, idx>>
                ELSE /\ sample_data' = Append(sample_data, SampleElement(firm))
                     /\ idx' = idx + 1
                     /\ Goto("build")
       ELSE /\ Goto("write")
            /\ UNCHANGED <<sample_data, idx>>
    /\ UNCHANGED <<envVars, fileVars, out, loadVars, covVars, sampleVars>>

\* WriteSample run as a clean-up that also follows an uncaught exception
WriteSampleAnyway ==
    /\ pc \in {"write", "aborted"}
    /\ ~fileOpened
    /\ fileOpened' = TRUE
    /\ fileContent' = [exists |-> TRUE, doc |-> JsonDump(sample_data)]
    /\ pc' = (IF pc = "write" THEN "final" ELSE pc)
    /\ abortAt' = abortAt
    /\ UNCHANGED <<envVars, out, loadVars, covVars, sampleVars, idx, sample_data>>

\* lines 129-130
WriteSample ==
    /\ pc = "write"
    /\ fileOpened' = TRUE
    /\ fileContent' = [exists |-> TRUE, doc |-> JsonDump(sample_data)]
    /\ Goto("final")
    /\ UNCHANGED <<envVars, out, loadVars, covVars, sampleVars, idx, sample_data>>

\* lines 132-133
Final ==
    /\ pc = "final"
    /\ Emit(<<Line("saved", 0), Line("next_step", 0)>>)
    /\ Goto("done")
    /\ UNCHANGED <<envVars, fileVars, loadVars, covVars, sampleVars, idx, sample_data>>

Terminated == pc \in {"done", "aborted"}

\* the workbook of a later run: the same VC Firms sheet; the Team Members
\* rows in another order and the other optional sheets, or no change
NextWorkbook(flip) ==
    IF flip
    THEN [workbook EXCEPT
            !.members = [@ EXCEPT !.rows = Reverse(@)],
            !.sheets = (@ \ OptionalSheets) \cup (OptionalSheets \ @)]
    ELSE workbook

\* the script is started again in a new process
Rerun ==
    /\ Terminated
    /\ runNo < MaxRuns
    /\ \E flip \in BOOLEAN : workbook' = NextWorkbook(flip)
    /\ runNo' = runNo + 1
    /\ prevSample' = IF rng = "used"
                     THEN [drawn |-> TRUE, names |-> sample_firms, workbook |-> workbook]
                     ELSE prevSample
    /\ fileAtStart' = fileContent
    /\ fileContent' = fileContent
    /\ pc' = "banner"
    /\ abortAt' = "none"
    /\ out' = <<>>
    /\ fileOpened' = FALSE
    /\ firms_df' = EmptyTable /\ members_df' = EmptyTable
    /\ portfolio_df' = EmptyTable /\ metrics_df' = EmptyTable
    /\ has_portfolio' = FALSE /\ has_metrics' = FALSE
    /\ linkedin_filled' = <<>> /\ email_filled' = <<>>
    /\ portfolio_filled' = <<>> /\ title_filled' = <<>>
    /\ unique_firms' = <<>>
    /\ rng' = "entropy"
    /\ sample_firms' = <<>>
    /\ idx' = 0
    /\ sample_data' = <<>>

Next ==
    \/ Banner
    \/ LoadFirms
    \/ LoadMembers
    \/ LoadPortfolio
    \/ LoadMetrics
    \/ Overview
    \/ Columns
    \/ MembersPerFirm
    \/ LinkedinCov
    \/ EmailCov
    \/ PortfolioCov
    \/ TitleCov
    \/ TierDistribution
    \/ UniqueFirms
    \/ Seed
    \/ Sample
    \/ Preview
    \/ Build
    \/ WriteSample
    \/ Final
    \/ Rerun

SpecLoad == InitLoad /\ [][Next]_vars
SpecCov == InitCov /\ [][Next]_vars
SpecSample == InitSample /\ [][Next]_vars
SpecExport == InitExport /\ [][Next]_vars

\* ------------------------------------------------------ positions of a run
Steps ==
    <<"banner", "load_firms", "load_members", "load_portfolio", "load_metrics",
      "overview", "columns", "members_per_firm", "linkedin_cov", "email_cov",
      "portfolio_cov", "title_cov", "tier", "unique", "seed", "sample",
      "preview", "build", "write", "final", "done">>

StepNo(p) == CHOOSE i \in 1..Len(Steps) : Steps[i] = p

\* the statement the run is at, or at which it was ended
Here == IF pc = "aborted" THEN abortAt ELSE pc

\* the run has executed step p to its end without an exception
After(p) == StepNo(Here) > StepNo(p)

HasLine(t) == \E i \in 1..Len(out) : out[i].t = t

LineOf(t) == out[CHOOSE i \in 1..Len(out) : out[i].t = t]

RequiredSheetsPresent == workbook.exists /\ RequiredSheets \subseteq workbook.sheets

\* the workbook has the required sheets, every column the script indexes and
\* a name in every companyName cell: only optional sheets can be missing
OtherwiseReadable ==
    /\ RequiredSheetsPresent
    /\ "companyName" \in workbook.firms.cols
    /\ {"vcFirm", "name", "linkedinUrl", "email", "title"} \subseteq workbook.members.cols
    /\ \A i \in 1..Len(workbook.firms.rows) : workbook.firms.rows[i]["companyName"] # NaN

\* ------------------------------------------------------------------- C1
\* C1: a missing 'Portfolio Companies' or 'Extraction Metrics' sheet is caught:
\* the run is never ended at that load, the flag of the sheet is false, its
\* table is empty, the overview leaves its line out, and the run goes on (a
\* run that ends early was ended by another statement; a run that ends at the
\* last line has printed the report and written the JSON sample).  A missing
\* 'VC Firms' or 'Team Members' sheet ends the run at its load, and such a run
\* never reaches the export.
C1_OptionalCaughtRequiredFatal ==
    /\ abortAt \notin {"load_portfolio", "load_metrics"}
    /\ After("load_portfolio") =>
          /\ has_portfolio = ("Portfolio Companies" \in workbook.sheets)
          /\ ~has_portfolio => portfolio_df = EmptyTable
    /\ After("load_metrics") =>
          /\ has_metrics = ("Extraction Metrics" \in workbook.sheets)
          /\ ~has_metrics => metrics_df = EmptyTable
    /\ After("overview") =>
          /\ HasLine("total_portfolio") = ("Portfolio Companies" \in workbook.sheets)
          /\ HasLine("metrics_available") = ("Extraction Metrics" \in workbook.sheets)
    /\ pc = "done" => fileOpened /\ HasLine("saved") /\ fileContent.doc = JsonDump(sample_data)
    /\ (Terminated /\ OtherwiseReadable) => pc = "done"
    /\ ~RequiredSheetsPresent =>
          /\ pc \notin {"build", "write", "final", "done"}
          /\ ~fileOpened
          /\ Terminated => pc = "aborted" /\ abortAt \in {"load_firms", "load_members"}
    /\ RequiredSheetsPresent => abortAt \notin {"load_firms", "load_members"}

\* both optional sheets are missing and the run has completed
C1_Witness ==
    /\ pc = "done"
    /\ workbook.sheets = RequiredSheets
    /\ ~has_portfolio /\ ~has_metrics
    /\ ~HasLine("total_portfolio") /\ ~HasLine("metrics_available")
    /\ fileOpened /\ fileContent.exists

\* a required sheet is missing, the optional ones are there, the run was ended
C1_WitnessFatal ==
    /\ pc = "aborted" /\ abortAt = "load_members"
    /\ workbook.sheets = AllSheets \ {"Team Members"}

\* ------------------------------------------------------------------- C2
\* C2: a run ended by an uncaught exception has not opened the JSON sample
\* file and has left its contents as it found them, and prints nothing after
\* the failure; the file is opened only by a run that executed every earlier
\* step (loads, coverage, report and sampling) to its end.
C2_AbortedRunWritesNothing ==
    /\ [](pc = "aborted" => ~fileOpened /\ fileContent = fileAtStart)
    /\ [](fileOpened =>
            /\ pc \in {"final", "done"}
            /\ \A t \in {"total_firms", "members_columns", "max_members", "linkedin_cov",
                         "email_cov", "title_cov", "total_unique", "selected_header"} :
                    HasLine(t)
            /\ Len(sample_data) = Len(sample_firms))
    /\ [][pc = "aborted" /\ runNo' = runNo =>
             out' = out /\ fileContent' = fileContent /\ fileOpened' = fileOpened]_vars

\* a required column is missing: the run was ended in the middle of the report
C2_Witness ==
    /\ pc = "aborted"
    /\ abortAt = "unique"
    /\ "companyName" \notin workbook.firms.cols
    /\ HasLine("title_cov")
    /\ ~HasLine("total_unique")
    /\ ~fileOpened

\* ------------------------------------------------------------------- C8
\* C8: when the required sheets exist and Team Members has the columns vcFirm
\* and name, the absence of title, email, linkedinUrl, portfolioCompanies or
\* decisionMakerTier is no fatal error: a terminated run has completed and
\* written the JSON sample.
C8_OptionalColumnsTolerated ==
    (/\ RequiredSheetsPresent
     /\ "companyName" \in workbook.firms.cols
     /\ MemberRequired \subseteq workbook.members.cols
     /\ Terminated)
    => pc = "done" /\ fileOpened

\* ------------------------------------------------------------------- C3
\* the rule of the specification: the value is present and, coerced to text
\* and stripped of whitespace, not empty
PresentAfterStrip(c) == c # NaN /\ Strip(PyStr(c)) # <<>>

NumberOf(col) ==
    Cardinality({i \in 1..Len(members_df.rows) : PresentAfterStrip(members_df.rows[i][col])})

\* C3: for each coverage field of Team Members (email, linkedinUrl, title, and
\* portfolioCompanies when the column exists) the filled count of its printed
\* coverage line is the number of rows whose value is present and not empty
\* after coercion to text and stripping; a whitespace-only value is not filled.
C3_CountsStrippedValues ==
    /\ HasLine("linkedin_cov") => LineOf("linkedin_cov").v[1] = NumberOf("linkedinUrl")
    /\ HasLine("email_cov") => LineOf("email_cov").v[1] = NumberOf("email")
    /\ HasLine("title_cov") => LineOf("title_cov").v[1] = NumberOf("title")
    /\ HasLine("portfolio_cov") =>
          LineOf("portfolio_cov").v[1] = NumberOf("portfolioCompanies")

\* ------------------------------------------------------------------- C4
\* the Team Members row a preview line was printed for (names differ per row)
RowNamed(name) ==
    members_df.rows[CHOOSE i \in 1..Len(members_df.rows) :
                        members_df.rows[i]["name"] = name]

\* C4: in every preview line the flags of email, linkedinUrl and
\* portfolioCompanies are a check mark exactly when the coverage rule
\* (notna and != '') counts the value of that row as filled; a missing-value
\* marker is flagged as not filled, as an empty string is.
C4_FlagsFollowCoverageRule ==
    \A i \in 1..Len(out) :
        out[i].t = "member" =>
            LET row == RowNamed(out[i].v.name)
            IN  /\ out[i].v.email = Filled(row["email"])
                /\ out[i].v.linkedin = Filled(row["linkedinUrl"])
                /\ "portfolioCompanies" \in members_df.cols =>
                       out[i].v.portfolio = Filled(row["portfolioCompanies"])
                /\ row["email"] = NaN => ~out[i].v.email
                /\ row["linkedinUrl"] = NaN => ~out[i].v.linkedin

\* ------------------------------------------------------------------- C5
\* the companyName values occurring in the VC Firms table
FirmNameValues == {firms_df.rows[i]["companyName"] : i \in 1..Len(firms_df.rows)}

\* C5: once the sample is drawn, sample_firms has exactly
\* min(5, number of distinct companyName values) entries, no name twice, and
\* every entry is a companyName value of the VC Firms table.
C5_SampleSizeDistinctMembers ==
    After("sample") =>
        /\ Len(sample_firms) = Min(5, Cardinality(FirmNameValues))
        /\ \A a, b \in 1..Len(sample_firms) : a # b => sample_firms[a] # sample_firms[b]
        /\ \A a \in 1..Len(sample_firms) : sample_firms[a] \in FirmNameValues

\* more than five distinct names, and a table with a repeated name
C5_Witness ==
    /\ After("sample")
    /\ Cardinality(FirmNameValues) > 5
    /\ Len(sample_firms) = 5

C5_WitnessFew ==
    /\ After("sample")
    /\ Len(firms_df.rows) > Cardinality(FirmNameValues)
    /\ Cardinality(FirmNameValues) \in 2..4
    /\ Len(sample_firms) = Cardinality(FirmNameValues)

\* ------------------------------------------------------------------- C9
\* C9: a run over the same VC Firms table as an earlier run that drew a sample
\* draws the same names in the same order, whatever the Team Members table,
\* the optional sheets and the earlier steps of the two runs were.
C9_SameFirmsSameSample ==
    (/\ prevSample.drawn
     /\ After("sample")
     /\ prevSample.workbook.firms = firms_df)
    => sample_firms = prevSample.names

\* a second run over the same firms with other members and optional sheets
C9_Witness ==
    /\ runNo = 2
    /\ prevSample.drawn
    /\ After("sample")
    /\ prevSample.workbook.firms = firms_df
    /\ prevSample.workbook.members # workbook.members
    /\ prevSample.workbook.sheets # workbook.sheets
    /\ Len(sample_firms) = 5
    /\ Len(firms_df.rows) > 5

\* ------------------------------------------------------------------ C10
\* C10: for every sampled name the lookup by equality on companyName finds a
\* row, also when a companyName cell is a missing-value marker, and the row
\* used is the first such row in table order; neither the preview loop nor
\* the export loop is ended by an empty match.
C10_LookupFindsFirstRow ==
    /\ After("sample") =>
          \A a \in 1..Len(sample_firms) :
              /\ FirmMatches(sample_firms[a]) # <<>>
              /\ \E i \in 1..Len(firms_df.rows) :
                    /\ FirmData(sample_firms[a]) = firms_df.rows[i]
                    /\ \A h \in 1..(i - 1) :
                          firms_df.rows[h]["companyName"] # sample_firms[a]
    /\ "name" \in members_df.cols => abortAt \notin {"preview", "build"}

\* ------------------------------------------------------------------- C6
\* the Team Members rows whose vcFirm is the name, in table order
RowsOfFirm(name) == SelectSeq(members_df.rows, LAMBDA r : r["vcFirm"] = name)

\* the names on the preview lines printed under the a-th sampled firm
HeaderPos(a) ==
    CHOOSE p \in 1..Len(out) : out[p].t = "members_header" /\ out[p].v = a

RECURSIVE MemberRun(_)
MemberRun(p) ==
    IF p <= Len(out) /\ out[p].t = "member" THEN 1 + MemberRun(p + 1) ELSE 0

ShownNames(a) ==
    [j \in 1..MemberRun(HeaderPos(a) + 1) |-> out[HeaderPos(a) + j].v.name]

\* C6: for every sampled firm the exported team_members list holds all Team
\* Members rows whose vcFirm is the firm's name, in table order and however
\* many they are, while the preview shows the first 5 of the same rows at most.
C6_ExportAllPreviewFive ==
    After("build") =>
        \A a \in 1..Len(sample_firms) :
            LET all == RowsOfFirm(sample_firms[a])
            IN  /\ sample_data[a].firm = sample_firms[a]
                /\ sample_data[a].team_members = all
                /\ ShownNames(a) = [j \in 1..Min(5, Len(all)) |-> all[j]["name"]]
                /\ After("write") =>
                      /\ Len(fileContent.doc[a].team_members) = Len(all)
                      /\ \A j \in 1..Len(all) :
                            fileContent.doc[a].team_members[j]["name"].s = all[j]["name"].s

\* a firm with more than five members: six exported, five previewed
C6_Witness ==
    /\ pc = "done"
    /\ \E a \in 1..Len(sample_firms) :
          /\ Len(fileContent.doc[a].team_members) > 5
          /\ Len(ShownNames(a)) = 5

\* ------------------------------------------------------------------- C7
\* the first VC Firms row whose companyName is the name
FirstRowOf(name) ==
    firms_df.rows[CHOOSE i \in 1..Len(firms_df.rows) :
                      /\ firms_df.rows[i]["companyName"] = name
                      /\ \A h \in 1..(i - 1) : firms_df.rows[h]["companyName"] # name]

\* a cell written as its text representation
AsText(c) == [j |-> "string", s |-> PyStr(c), n |-> 0]

\* a cell written as the encoder represents it: text as a string, a number
\* as a number, a missing value as NaN, anything else as its text
AsEncoded(c) ==
    IF c.k = "num" THEN [j |-> "number", s |-> <<>>, n |-> c.n]
    ELSE IF c.k = "nan" THEN [j |-> "NaN", s |-> <<>>, n |-> 0]
    ELSE AsText(c)

\* every column of the exported rows is a key of the exported objects, and
\* holds what W makes of the source cell
ExportRoundTrip(W(_)) ==
    After("write") =>
        \A a \in 1..Len(sample_firms) :
            LET row == FirstRowOf(sample_firms[a])
                all == RowsOfFirm(sample_firms[a])
                e == fileContent.doc[a]
            IN  /\ DOMAIN e.firm_data = firms_df.cols
                /\ \A c \in firms_df.cols : e.firm_data[c] = W(row[c])
                /\ Len(e.team_members) = Len(all)
                /\ \A j \in 1..Len(all) :
                      /\ DOMAIN e.team_members[j] = members_df.cols
                      /\ \A c \in members_df.cols : e.team_members[j][c] = W(all[j][c])

\* C7 as stated: every column of a sampled Firm row and of its TeamMember
\* rows is a key of firm_data / of the team_members element and holds the
\* source cell's value, numeric cells and missing-value markers coerced to
\* their text representation.
C7_RoundTripAllText == ExportRoundTrip(AsText)

\* C7 as amended: the same round trip, where text cells are strings, numeric
\* cells are numbers and missing-value markers are NaN (the encoder
\* represents them natively), and only the other values (dates) are coerced
\* to their text representation.
C7_RoundTripEncoded == ExportRoundTrip(AsEncoded)

\* an exported firm with a member, with numeric, date and missing cells
C7_Witness ==
    /\ pc = "done"
    /\ \E a \in 1..Len(sample_firms) :
          /\ Len(fileContent.doc[a].team_members) > 0
          /\ fileContent.doc[a].firm_data["fundSize"].j = "number"
          /\ fileContent.doc[a].firm_data["founded"].j = "string"
          /\ fileContent.doc[a].firm_data["notes"].j = "NaN"
          /\ fileContent.doc[a].team_members[1]["linkedinUrl"].j = "NaN"
          /\ Len(FirmMatches(sample_firms[a])) > 1

====
